---- MODULE Spec2Model ----
(***************************************************************************)
(* DefaultTermination (autogen/experimental/terminations):                 *)
(* the turn counter, the configuration, and check_termination's scan of    *)
(* the chat history.  Python strings are sequences of one-character        *)
(* strings; the `in` operator is modelled per operand type (substring on   *)
(* str, element equality on list, TypeError on None).                      *)
(***************************************************************************)
EXTENDS Integers, Sequences, FiniteSets, TLC

VARIABLES
    turns,                \* self._turns
    max_turns,            \* self._max_turns
    termination_message,  \* self._termination_message
    chat_history,         \* chat_history.messages, owned by the caller
    result,               \* what the last call returned (or raised)
    op,                   \* the last call
    recorded,             \* history: record_turn_taken calls since __init__ or the last reset
    was_reset,            \* history: reset has been called
    earlier_reasons       \* history: reasons of the Terminated verdicts returned before
                          \* the last call, since __init__ or the last reset

vars == <<turns, max_turns, termination_message, chat_history, result, op, recorded, was_reset,
          earlier_reasons>>

(* ---------------------------- bounds ----------------------------------- *)

\* longest chat history the orchestration layer builds
MaxHistory == 2

\* largest max_turns a constructor call is given (0..MaxMaxTurns)
MaxMaxTurns == 2

(* ---------------------------- strings ---------------------------------- *)

\* the default termination_message, "TERMINATE"
TERMINATE == <<"T", "E", "R", "M", "I", "N", "A", "T", "E">>

\* "hello"
Hello == <<"h", "e", "l", "l", "o">>

\* "please TERMINATE now"
PleaseTerminateNow == <<"p", "l", "e", "a", "s", "e", " ">> \o TERMINATE \o <<" ", "n", "o", "w">>

\* "terminate TERMINAT E": the phrase in another case, and broken by a space
NearMiss == <<"t", "e", "r", "m", "i", "n", "a", "t", "e", " ", "T", "E", "R", "M", "I", "N", "A", "T", " ", "E">>

\* str contents of the messages drawn as inputs
Texts == {Hello, TERMINATE, PleaseTerminateNow, NearMiss}

\* needle in haystack, both str: a contiguous occurrence anywhere
StrIn(needle, haystack) ==
    \E i \in 0..(Len(haystack) - Len(needle)) :
        SubSeq(haystack, i + 1, i + Len(needle)) = needle

(* ---------------------------- messages --------------------------------- *)

\* an element of a multimodal content list: a str or an Image
StrPart(s) == [is_image |-> FALSE, text |-> s]
ImagePart == [is_image |-> TRUE, text |-> <<>>]

\* message.content: a str, a list of str/Image, or None
StrContent(s) == [kind |-> "str", text |-> s, parts |-> <<>>]
ListContent(l) == [kind |-> "list", text |-> <<>>, parts |-> l]
NoneContent == [kind |-> "None", text |-> <<>>, parts |-> <<>>]

\* list contents drawn as inputs: the phrase as an element, a longer str
\* holding the phrase, an image alone
Lists == {<<ImagePart, StrPart(TERMINATE)>>, <<StrPart(PleaseTerminateNow)>>, <<ImagePart>>}

\* a content that is neither str, list nor None (an int)
IntContent == [kind |-> "int", text |-> <<>>, parts |-> <<>>]

\* UserMessage.content: str or a list of str/Image
UserContents == {StrContent(s) : s \in Texts} \cup {ListContent(l) : l \in Lists}

\* AssistantMessage.content: str or None
AssistantContents == {StrContent(s) : s \in Texts} \cup {NoneContent}

UserMessage(c, t) == [type |-> "UserMessage", content |-> c, is_termination |-> t]
AssistantMessage(c) == [type |-> "AssistantMessage", content |-> c, is_termination |-> FALSE]
\* a message of another type (tool message): has no field the scan reads
ToolMessage == [type |-> "ToolMessage", content |-> NoneContent, is_termination |-> FALSE]
\* a message of another type whose content is the phrase
ToolResultMessage == [type |-> "ToolMessage", content |-> StrContent(TERMINATE), is_termination |-> FALSE]

Messages ==
    {UserMessage(c, t) : c \in UserContents, t \in BOOLEAN}
        \cup {AssistantMessage(c) : c \in AssistantContents}
        \cup {ToolMessage, ToolResultMessage}

\* messages whose content is not of the declared type
MalformedMessages ==
    {UserMessage(c, t) : c \in {NoneContent, IntContent}, t \in BOOLEAN}
        \cup {AssistantMessage(c) : c \in {IntContent, ListContent(<<StrPart(TERMINATE)>>)}}

Agents == {"agent_a", "agent_b"}

(* ---------------------------- results ---------------------------------- *)

Terminated(reason, detail) == [kind |-> "Terminated", reason |-> reason, detail |-> detail]
NotTerminated == [kind |-> "NotTerminated", reason |-> "", detail |-> ""]
\* the call raised TypeError instead of returning
TypeError == [kind |-> "TypeError", reason |-> "", detail |-> ""]
\* the message ended neither the loop nor the call
NoMatch == [kind |-> "NoMatch", reason |-> "", detail |-> ""]
\* the value of a call that returns None
None == [kind |-> "None", reason |-> "", detail |-> ""]

MaxTurnsReached == Terminated("MAX_TURNS_REACHED", "Max turns reached.")
TerminationMessageReceived == Terminated("TERMINATION_MESSAGE", "Termination message received.")
UserRequested == Terminated("USER_REQUESTED", "User requested termination.")

(* ---------------------------- check_termination ------------------------ *)

\* `needle in content`: [raises, value]
In(needle, content) ==
    CASE content.kind = "str" -> [raises |-> FALSE, value |-> StrIn(needle, content.text)]
      [] content.kind = "list" ->
            [raises |-> FALSE,
             value |-> \E i \in 1..Len(content.parts) :
                          /\ ~content.parts[i].is_image
                          /\ content.parts[i].text = needle]
      [] OTHER -> [raises |-> TRUE, value |-> FALSE]

\* variant: the is_termination flag is tested before the phrase
check_user_message_flag_first(phrase, message) ==
    IF message.is_termination
    THEN UserRequested
    ELSE IF In(phrase, message.content).raises
    THEN TypeError
    ELSE IF In(phrase, message.content).value
    THEN TerminationMessageReceived
    ELSE NoMatch

\* the `if isinstance(message, UserMessage):` block
check_user_message(phrase, message) ==
    IF message.content.kind = "str" /\ StrIn(phrase, message.content.text)
    THEN TerminationMessageReceived
    ELSE IF message.is_termination
    THEN UserRequested
    ELSE IF In(phrase, message.content).raises
    THEN TypeError
    ELSE IF In(phrase, message.content).value
    THEN TerminationMessageReceived
    ELSE NoMatch

\* variant: no `content is not None` guard
check_assistant_message_no_none_guard(phrase, message) ==
    IF In(phrase, message.content).raises
    THEN TypeError
    ELSE IF In(phrase, message.content).value
    THEN TerminationMessageReceived
    ELSE NoMatch

\* variant: the content is compared with the phrase instead of searched
check_assistant_message_whole_text(phrase, message) ==
    IF message.content.kind = "None"
    THEN NoMatch
    ELSE IF message.content.kind = "str" /\ message.content.text = phrase
    THEN TerminationMessageReceived
    ELSE NoMatch

\* the `if isinstance(message, AssistantMessage):` block
check_assistant_message(phrase, message) ==
    IF message.content.kind = "None"
    THEN NoMatch
    ELSE IF In(phrase, message.content).raises
    THEN TypeError
    ELSE IF In(phrase, message.content).value
    THEN TerminationMessageReceived
    ELSE NoMatch

\* variant: every message that is no UserMessage takes the assistant branch
check_message_else_branch(phrase, message) ==
    CASE message.type = "UserMessage" -> check_user_message(phrase, message)
      [] OTHER -> check_assistant_message(phrase, message)

\* one iteration of the for loop
check_message(phrase, message) ==
    CASE message.type = "UserMessage" -> check_user_message(phrase, message)
      [] message.type = "AssistantMessage" -> check_assistant_message(phrase, message)
      [] OTHER -> NoMatch

\* variant: the loop runs over the messages newest first
RECURSIVE scan_newest_first(_, _, _)
scan_newest_first(phrase, messages, i) ==
    IF i > Len(messages)
    THEN NotTerminated
    ELSE IF check_message(phrase, messages[Len(messages) + 1 - i]) # NoMatch
    THEN check_message(phrase, messages[Len(messages) + 1 - i])
    ELSE scan_newest_first(phrase, messages, i + 1)

\* variant: only the newest message is looked at
scan_last_message_only(phrase, messages, i) ==
    IF Len(messages) = 0
    THEN NotTerminated
    ELSE IF check_message(phrase, messages[Len(messages)]) # NoMatch
    THEN check_message(phrase, messages[Len(messages)])
    ELSE NotTerminated

\* the for loop from message i on, then `return NotTerminated()`
RECURSIVE scan(_, _, _)
scan(phrase, messages, i) ==
    IF i > Len(messages)
    THEN NotTerminated
    ELSE IF check_message(phrase, messages[i]) # NoMatch
    THEN check_message(phrase, messages[i])
    ELSE scan(phrase, messages, i + 1)

\* variant: the ceiling is tested with > instead of >=
check_termination_result_strict(t, m, phrase, messages) ==
    IF t > m
    THEN MaxTurnsReached
    ELSE scan(phrase, messages, 1)

\* variant: the ceiling is reached one turn early
check_termination_result_early(t, m, phrase, messages) ==
    IF t + 1 >= m
    THEN MaxTurnsReached
    ELSE scan(phrase, messages, 1)

\* what check_termination returns (or raises) for counter t, ceiling m
check_termination_result(t, m, phrase, messages) ==
    IF t >= m
    THEN MaxTurnsReached
    ELSE scan(phrase, messages, 1)

(* ---------------------------- operations ------------------------------- *)

\* DefaultTermination(termination_message="TERMINATE", max_turns=n), with
\* an empty chat history
Init ==
    /\ turns = 0
    /\ max_turns \in 0..MaxMaxTurns
    /\ termination_message = TERMINATE
    /\ chat_history = <<>>
    /\ result = None
    /\ op = "__init__"
    /\ recorded = 0
    /\ was_reset = FALSE
    /\ earlier_reasons = {}

\* earlier_reasons once the last call's verdict is no longer the latest
EarlierReasons ==
    IF op = "check_termination" /\ result.kind = "Terminated"
    THEN earlier_reasons \cup {result.reason}
    ELSE earlier_reasons

\* variant: only the first agent's turns are counted
record_turn_taken_first_agent_only(agent) ==
    /\ turns <= MaxMaxTurns
    /\ turns' = IF agent = "agent_a" THEN turns + 1 ELSE turns
    /\ recorded' = recorded + 1
    /\ result' = None
    /\ op' = "record_turn_taken"
    /\ earlier_reasons' = EarlierReasons
    /\ UNCHANGED <<max_turns, termination_message, chat_history, was_reset>>

\* the counter is capped one past the largest ceiling
record_turn_taken(agent) ==
    /\ turns <= MaxMaxTurns
    /\ turns' = turns + 1
    /\ recorded' = recorded + 1
    /\ result' = None
    /\ op' = "record_turn_taken"
    /\ earlier_reasons' = EarlierReasons
    /\ UNCHANGED <<max_turns, termination_message, chat_history, was_reset>>

\* variant: a check counts as a turn
check_termination_counting ==
    /\ result' = check_termination_result(turns, max_turns, termination_message, chat_history)
    /\ turns' = turns + 1
    /\ op' = "check_termination"
    /\ earlier_reasons' = EarlierReasons
    /\ UNCHANGED <<max_turns, termination_message, chat_history, recorded, was_reset>>

\* variant: a transcript verdict, once returned, is returned again
check_termination_latched ==
    /\ result' = IF "TERMINATION_MESSAGE" \in EarlierReasons
                 THEN TerminationMessageReceived
                 ELSE IF "USER_REQUESTED" \in EarlierReasons
                 THEN UserRequested
                 ELSE check_termination_result(turns, max_turns, termination_message, chat_history)
    /\ op' = "check_termination"
    /\ earlier_reasons' = EarlierReasons
    /\ UNCHANGED <<turns, max_turns, termination_message, chat_history, recorded, was_reset>>

\* variant: reporting the ceiling starts the count again
check_termination_auto_reset ==
    /\ result' = check_termination_result(turns, max_turns, termination_message, chat_history)
    /\ turns' = IF turns >= max_turns THEN 0 ELSE turns
    /\ op' = "check_termination"
    /\ earlier_reasons' = EarlierReasons
    /\ UNCHANGED <<max_turns, termination_message, chat_history, recorded, was_reset>>

check_termination ==
    /\ result' = check_termination_result(turns, max_turns, termination_message, chat_history)
    /\ op' = "check_termination"
    /\ earlier_reasons' = EarlierReasons
    /\ UNCHANGED <<turns, max_turns, termination_message, chat_history, recorded, was_reset>>

\* variant: reset takes back the last turn only
reset_undo_last_turn ==
    /\ turns' = IF turns > 0 THEN turns - 1 ELSE 0
    /\ recorded' = 0
    /\ was_reset' = TRUE
    /\ result' = None
    /\ op' = "reset"
    /\ earlier_reasons' = {}
    /\ UNCHANGED <<max_turns, termination_message, chat_history>>

reset ==
    /\ turns' = 0
    /\ recorded' = 0
    /\ was_reset' = TRUE
    /\ result' = None
    /\ op' = "reset"
    /\ earlier_reasons' = {}
    /\ UNCHANGED <<max_turns, termination_message, chat_history>>

\* the orchestration layer appends a message to the chat history
append_message(message) ==
    /\ Len(chat_history) < MaxHistory
    /\ chat_history' = Append(chat_history, message)
    /\ result' = None
    /\ op' = "append_message"
    /\ earlier_reasons' = EarlierReasons
    /\ UNCHANGED <<turns, max_turns, termination_message, recorded, was_reset>>

Next ==
    \/ \E agent \in Agents : record_turn_taken(agent)
    \/ check_termination
    \/ reset
    \/ \E message \in Messages : append_message(message)

\* chat histories of well-typed messages
Spec == Init /\ [][Next]_vars

NextMalformed ==
    \/ \E agent \in Agents : record_turn_taken(agent)
    \/ check_termination
    \/ reset
    \/ \E message \in Messages : append_message(message)
    \/ \E message \in MalformedMessages : append_message(message)

\* chat histories that may hold messages whose content is not of the
\* declared type
SpecMalformed == Init /\ [][NextMalformed]_vars

(* ---------------------------- properties ------------------------------- *)

\* the last call was check_termination, and result is what it returned
Checked == op = "check_termination"

\* the chat history without its i-th message
Without(messages, i) == SubSeq(messages, 1, i - 1) \o SubSeq(messages, i + 1, Len(messages))

\* the loop gets as far as the i-th message: no earlier message ends it
ScanReaches(i) ==
    \A j \in 1..(i - 1) : check_message(termination_message, chat_history[j]) = NoMatch

\* the message's content is text and holds the termination phrase
ContainsPhrase(message) ==
    /\ message.content.kind = "str"
    /\ StrIn(termination_message, message.content.text)

\* C1: whenever turns >= max_turns (max_turns = 0 included), check_termination
\* returns Terminated(MAX_TURNS_REACHED, "Max turns reached.") whatever the
\* chat history holds.
C1_TurnLimitOverridesTranscript ==
    (Checked /\ turns >= max_turns) => result = MaxTurnsReached

\* exactly max_turns turns recorded since construction, and a chat history
\* with a phrase message and a flagged user message
C1_Witness ==
    /\ Checked
    /\ ~was_reset
    /\ max_turns > 0
    /\ recorded = max_turns
    /\ \E i \in 1..Len(chat_history) : ContainsPhrase(chat_history[i])
    /\ \E i \in 1..Len(chat_history) : chat_history[i].is_termination
    /\ result = MaxTurnsReached

C3_NonTextNeverInspected ==
    (Checked /\ turns < max_turns) =>
        \A i \in 1..Len(chat_history) :
            ( /\ chat_history[i].type = "UserMessage"
              /\ chat_history[i].content.kind # "str"
              /\ ScanReaches(i) ) =>
                IF chat_history[i].is_termination
                THEN result = UserRequested
                ELSE result = check_termination_result(turns, max_turns,
                                  termination_message, Without(chat_history, i))

\* C4: check_termination always returns a verdict and never raises, also on
\* a user message whose content is absent or of an unrecognised type with
\* is_termination unset: such a message matches nothing and the scan goes on.
C4_NeverRaises ==
    Checked =>
        /\ result.kind \in {"Terminated", "NotTerminated"}
        /\ \A i \in 1..Len(chat_history) :
               ( /\ chat_history[i].type = "UserMessage"
                 /\ chat_history[i].content.kind \in {"None", "int"}
                 /\ ~chat_history[i].is_termination ) =>
                   result = check_termination_result(turns, max_turns,
                                termination_message, Without(chat_history, i))

\* C5: below the ceiling the verdict is that of the first message, oldest
\* first, that matches a rule; a flagged user message without the phrase
\* followed by a message that matches TERMINATION_MESSAGE gives
\* USER_REQUESTED.
C5_FirstMatchWins ==
    (Checked /\ turns < max_turns) =>
        /\ \A i \in 1..Len(chat_history) :
               ( /\ ScanReaches(i)
                 /\ check_message(termination_message, chat_history[i]) # NoMatch ) =>
                   result = check_message(termination_message, chat_history[i])
        /\ \A i \in 1..Len(chat_history) : \A j \in (i + 1)..Len(chat_history) :
               ( /\ ScanReaches(i)
                 /\ chat_history[i].type = "UserMessage"
                 /\ chat_history[i].is_termination
                 /\ ~ContainsPhrase(chat_history[i])
                 /\ check_message(termination_message, chat_history[j])
                        = TerminationMessageReceived ) =>
                   result = UserRequested

C5_Witness ==
    /\ Checked
    /\ turns < max_turns
    /\ Len(chat_history) = 2
    /\ chat_history[1] = UserMessage(StrContent(Hello), TRUE)
    /\ ContainsPhrase(chat_history[2])
    /\ result = UserRequested

\* C6: when the scan reaches a user message below the ceiling, text content
\* holding the phrase anywhere gives TERMINATION_MESSAGE even with the flag
\* set; content without the phrase and the flag set gives USER_REQUESTED.
C6_UserPhraseBeforeFlag ==
    (Checked /\ turns < max_turns) =>
        \A i \in 1..Len(chat_history) :
            (chat_history[i].type = "UserMessage" /\ ScanReaches(i)) =>
                /\ ContainsPhrase(chat_history[i]) => result = TerminationMessageReceived
                /\ (~ContainsPhrase(chat_history[i]) /\ chat_history[i].is_termination)
                       => result = UserRequested

\* a flagged user message with the phrase inside a longer text
C6_Witness ==
    /\ Checked
    /\ turns < max_turns
    /\ \E i \in 1..Len(chat_history) :
           /\ ScanReaches(i)
           /\ chat_history[i] = UserMessage(StrContent(PleaseTerminateNow), TRUE)
    /\ result = TerminationMessageReceived

\* C7: an assistant message with absent content is inert: the verdict is
\* that of the chat history without it.
C7_AbsentAssistantInert ==
    Checked =>
        \A i \in 1..Len(chat_history) :
            chat_history[i] = AssistantMessage(NoneContent) =>
                /\ check_message(termination_message, chat_history[i]) = NoMatch
                /\ result = check_termination_result(turns, max_turns,
                                termination_message, Without(chat_history, i))

\* the message after the absent-content one is still scanned
C7_Witness ==
    /\ Checked
    /\ turns < max_turns
    /\ Len(chat_history) = 2
    /\ chat_history[1] = AssistantMessage(NoneContent)
    /\ result = TerminationMessageReceived

\* C8: an assistant message matches exactly when its content is present
\* text holding the phrase; when the scan reaches such a message below the
\* ceiling the verdict is TERMINATION_MESSAGE; an assistant message never
\* gives USER_REQUESTED.
C8_AssistantPhrase ==
    (Checked /\ turns < max_turns) =>
        \A i \in 1..Len(chat_history) :
            chat_history[i].type = "AssistantMessage" =>
                /\ (check_message(termination_message, chat_history[i]) # NoMatch)
                       <=> ContainsPhrase(chat_history[i])
                /\ check_message(termination_message, chat_history[i]) # UserRequested
                /\ (ContainsPhrase(chat_history[i]) /\ ScanReaches(i))
                       => result = TerminationMessageReceived

C8_Witness ==
    /\ Checked
    /\ turns < max_turns
    /\ Len(chat_history) = 2
    /\ ScanReaches(2)
    /\ chat_history[2] = AssistantMessage(StrContent(PleaseTerminateNow))
    /\ result = TerminationMessageReceived

\* C9: a check_termination call leaves turns, max_turns and
\* termination_message as they were, whatever it returns.
C9_CheckIsPureRead ==
    [][op' = "check_termination" =>
           /\ turns' = turns
           /\ max_turns' = max_turns
           /\ termination_message' = termination_message]_vars

C9_Witness ==
    /\ Checked
    /\ turns > 0
    /\ turns < max_turns
    /\ result = TerminationMessageReceived

\* C10: turns starts at 0, is always a natural number equal to the number
\* of record_turn_taken calls since construction or the last reset; each
\* record_turn_taken adds 1 for any agent, reset sets 0, nothing else
\* writes it.
C10_TurnsCountsRecordedTurns ==
    /\ turns = 0
    /\ [](turns \in Nat /\ turns = recorded)
    /\ [][ /\ op' = "record_turn_taken" => turns' = turns + 1
           /\ op' = "reset" => turns' = 0
           /\ op' \notin {"record_turn_taken", "reset"} => turns' = turns ]_vars

\* two turns recorded after a reset
C10_Witness ==
    /\ op = "record_turn_taken"
    /\ was_reset
    /\ recorded = 2
    /\ turns = 2

\* the message matches a termination rule: the phrase in user or assistant
\* text, or the user flag
MatchesRule(message) ==
    \/ message.type = "UserMessage"
         /\ (ContainsPhrase(message) \/ message.is_termination)
    \/ message.type = "AssistantMessage" /\ ContainsPhrase(message)

\* C11: reset sets turns to 0 and leaves max_turns, termination_message (and
\* the chat history) alone; a reset right after a reset changes nothing.
C11_ResetIdempotent ==
    [][ /\ op' = "reset" =>
              /\ turns' = 0
              /\ max_turns' = max_turns
              /\ termination_message' = termination_message
              /\ chat_history' = chat_history
        /\ (op = "reset" /\ op' = "reset") =>
              <<turns, max_turns, termination_message>>'
                  = <<turns, max_turns, termination_message>> ]_vars

\* a reset of an evaluator with the largest ceiling and a chat history in place
C11_Witness ==
    /\ op = "reset"
    /\ turns = 0
    /\ max_turns = MaxMaxTurns
    /\ termination_message = TERMINATE
    /\ Len(chat_history) > 0
    /\ earlier_reasons = {}

\* C12: the verdict is a function of the current turns, max_turns,
\* termination_message and chat history alone; verdicts returned earlier do
\* not bear on it.
C12_NotLatched ==
    Checked =>
        result = check_termination_result(turns, max_turns, termination_message, chat_history)

\* a transcript verdict was returned earlier, and the check at the ceiling
\* gives MAX_TURNS_REACHED
C12_Witness ==
    /\ Checked
    /\ earlier_reasons \cap {"TERMINATION_MESSAGE", "USER_REQUESTED"} # {}
    /\ result = MaxTurnsReached

\* the verdict a message that matches a rule gives: TERMINATION_MESSAGE for
\* the phrase, USER_REQUESTED for the flag alone
RuleVerdict(message) ==
    IF ContainsPhrase(message) THEN TerminationMessageReceived ELSE UserRequested

IsUserOrAssistant(message) == message.type \in {"UserMessage", "AssistantMessage"}

\* C14: messages of another role never match: the verdict is that of the
\* chat history with all of them removed.
C14_OtherRolesPassThrough ==
    Checked =>
        result = check_termination_result(turns, max_turns, termination_message,
                     SelectSeq(chat_history, IsUserOrAssistant))

\* a message of another role whose content is the phrase, and no verdict
C14_Witness ==
    /\ Checked
    /\ turns < max_turns
    /\ Len(chat_history) = 2
    /\ \E i \in 1..Len(chat_history) : chat_history[i] = ToolResultMessage
    /\ result = NotTerminated

\* C15: check_termination returns NotTerminated exactly when turns <
\* max_turns and no message matches a rule (user text with the phrase, user
\* flag, assistant text with the phrase); a USER_REQUESTED verdict has a
\* flagged user message behind it, a TERMINATION_MESSAGE verdict a user or
\* assistant message whose text holds the phrase.
C15_NotTerminatedIffNoMatch ==
    Checked =>
        /\ (result = NotTerminated) <=>
               ( /\ turns < max_turns
                 /\ \A i \in 1..Len(chat_history) : ~MatchesRule(chat_history[i]) )
        /\ result = UserRequested =>
               \E i \in 1..Len(chat_history) :
                   /\ chat_history[i].type = "UserMessage"
                   /\ chat_history[i].is_termination
        /\ result = TerminationMessageReceived =>
               \E i \in 1..Len(chat_history) :
                   /\ IsUserOrAssistant(chat_history[i])
                   /\ ContainsPhrase(chat_history[i])

\* C16: once a check has returned MAX_TURNS_REACHED, every later check
\* returns MAX_TURNS_REACHED until reset is called, whatever turns are
\* recorded and messages appended in between; turns goes down through
\* reset only.
C16_CeilingAbsorbing ==
    /\ []((Checked /\ "MAX_TURNS_REACHED" \in earlier_reasons) => result = MaxTurnsReached)
    /\ [][op' # "reset" => turns' >= turns]_vars

\* a check past the ceiling, after one that returned MAX_TURNS_REACHED, on
\* a chat history whose first message matches a rule
C16_Witness ==
    /\ Checked
    /\ "MAX_TURNS_REACHED" \in earlier_reasons
    /\ ~was_reset
    /\ turns > max_turns
    /\ Len(chat_history) > 0
    /\ MatchesRule(chat_history[1])
    /\ result = MaxTurnsReached

\* C17: below the ceiling a Terminated verdict is stable under appending:
\* if check_termination returns Terminated with reason r on a prefix of the
\* chat history, it returns Terminated with reason r on the chat history;
\* so a transcript verdict returned by an earlier check is returned again.
C17_StableUnderAppend ==
    (Checked /\ turns < max_turns) =>
        /\ \A k \in 0..Len(chat_history) :
               check_termination_result(turns, max_turns, termination_message,
                   SubSeq(chat_history, 1, k)).kind = "Terminated" =>
                       result = check_termination_result(turns, max_turns,
                                    termination_message, SubSeq(chat_history, 1, k))
        /\ "TERMINATION_MESSAGE" \in earlier_reasons => result = TerminationMessageReceived
        /\ "USER_REQUESTED" \in earlier_reasons => result = UserRequested

\* USER_REQUESTED was returned before, and is returned on a chat history
\* whose appended message holds the phrase
C17_Witness ==
    /\ Checked
    /\ turns < max_turns
    /\ "USER_REQUESTED" \in earlier_reasons
    /\ Len(chat_history) = 2
    /\ ContainsPhrase(chat_history[2])
    /\ result = UserRequested

====
